---- MODULE Spec2Model ----
(***************************************************************************)
(* Model of python_service/app.py: the embedding service.                  *)
(*                                                                         *)
(* All handlers are `async def`, so they run on the single event loop of   *)
(* the process.  A handler runs without interruption up to its next        *)
(* `await`; the only await in the file is `await image.read()` (line 80).  *)
(* The startup hook runs before the first request is served.               *)
(***************************************************************************)
EXTENDS Integers, Sequences, FiniteSets

\* ------------------------------------------------------------------ bounds
\* number of /embed requests in one run
MaxReq == 2
\* output dimensionality of the model architecture (512 for ViT-B-32)
EmbedDim == 2

Reqs == 1..MaxReq

VARIABLES
    environ,      \* os.environ at import time
    open_clip,    \* module global (None when the import failed)
    torch,        \* module global (None when the import failed)
    cuda,         \* torch.cuda.is_available()
    MODEL_NAME, PRETRAINED, DEVICE,
    MODEL, PREPROCESS,
    started,      \* the startup event has run
    startupLog,   \* what on_startup printed
    req,          \* the /embed requests: position, uploaded bytes, probes
    resp,         \* the response of each /embed request
    lastGet,      \* the response of the last GET handled
    ensureCalls,  \* probe: calls of _load_model
    createCalls,  \* probe: calls of open_clip.create_model_and_transforms
    okLoads       \* probe: executions of line 40-41 (MODEL/PREPROCESS assigned)

cfgVars == <<environ, open_clip, torch, cuda, MODEL_NAME, PRETRAINED, DEVICE>>
modelVars == <<MODEL, PREPROCESS>>
probeVars == <<ensureCalls, createCalls, okLoads>>
vars == <<environ, open_clip, torch, cuda, MODEL_NAME, PRETRAINED, DEVICE,
          MODEL, PREPROCESS, started, startupLog, req, resp, lastGet,
          ensureCalls, createCalls, okLoads>>

\* ------------------------------------------------------------ values
\* Python's None for an optional object: the empty tuple; an object is <<obj>>.
None == <<>>
Unset == "<unset>"

\* os.getenv(key, default)
\* (faulty variant: the environment is ignored)
GetenvIgnoring(e, key, default) == default
Getenv(e, key, default) == IF e[key] = Unset THEN default ELSE e[key]

\* "cuda" if (torch and torch.cuda.is_available()) else "cpu"
DefaultDevice(t, c) == IF t # None /\ c THEN "cuda" ELSE "cpu"

\* ------------------------------------------------------------ _load_model
\* the test of line 34
\* (faulty variant: the test is missing and every call loads)
NeedsLoadAlways(M) == TRUE
NeedsLoad(M) == M = None

\* open_clip.create_model_and_transforms: the k-th objects it hands out
CreatedModel(k, name, pre, dev) ==
    [id |-> k, name |-> name, pretrained |-> pre, device |-> dev, training |-> TRUE]
CreatedPreprocess(k) == [id |-> k]
\* model.eval()
Eval(m) == [m EXCEPT !.training = FALSE]

\* _load_model(): createOut, evalOut say whether create_model_and_transforms
\* and model.eval() return ("ok") or raise ("raise") in this call; k is the
\* number of create calls made before it.
\* Result: the globals after the call, whether it raised, and the probes.
\* (faulty variant: MODEL is assigned before model.eval() is called)
load_model_assign_first(oc, t, M, P, name, pre, dev, k, createOut, evalOut) ==
    IF oc = None \/ t = None
    THEN [MODEL |-> M, PREPROCESS |-> P, raised |-> TRUE, created |-> 0, loaded |-> 0]
    ELSE IF ~NeedsLoad(M)
    THEN [MODEL |-> M, PREPROCESS |-> P, raised |-> FALSE, created |-> 0, loaded |-> 0]
    ELSE IF createOut = "raise"
    THEN [MODEL |-> M, PREPROCESS |-> P, raised |-> TRUE, created |-> 1, loaded |-> 0]
    ELSE IF evalOut = "raise"
    THEN [MODEL |-> <<CreatedModel(k + 1, name, pre, dev)>>, PREPROCESS |-> P,
          raised |-> TRUE, created |-> 1, loaded |-> 0]
    ELSE [MODEL |-> <<Eval(CreatedModel(k + 1, name, pre, dev))>>,
          PREPROCESS |-> <<CreatedPreprocess(k + 1)>>,
          raised |-> FALSE, created |-> 1, loaded |-> 1]

load_model(oc, t, M, P, name, pre, dev, k, createOut, evalOut) ==
    IF oc = None \/ t = None
    THEN [MODEL |-> M, PREPROCESS |-> P, raised |-> TRUE, created |-> 0, loaded |-> 0]
    ELSE IF ~NeedsLoad(M)
    THEN [MODEL |-> M, PREPROCESS |-> P, raised |-> FALSE, created |-> 0, loaded |-> 0]
    ELSE IF createOut = "raise" \/ evalOut = "raise"
    THEN [MODEL |-> M, PREPROCESS |-> P, raised |-> TRUE, created |-> 1, loaded |-> 0]
    ELSE [MODEL |-> <<Eval(CreatedModel(k + 1, name, pre, dev))>>,
          PREPROCESS |-> <<CreatedPreprocess(k + 1)>>,
          raised |-> FALSE, created |-> 1, loaded |-> 1]

Outcomes == {"ok", "raise"}

\* ------------------------------------------------------------ initial state
\* the environments the process is started in: nothing set, everything set,
\* only the model name set
Environs ==
    {[MODEL_NAME |-> Unset, PRETRAINED |-> Unset, DEVICE |-> Unset],
     [MODEL_NAME |-> "RN50", PRETRAINED |-> "openai", DEVICE |-> "cpu"],
     [MODEL_NAME |-> "RN50", PRETRAINED |-> Unset, DEVICE |-> Unset]}

NoResp == [status |-> 0]
\* a request not yet made; the probes record what the handler ran for it
IdleReq == [pc |-> "idle", data |-> "", sawNone |-> FALSE, ranLoad |-> FALSE,
            loadRaised |-> FALSE, ranForward |-> FALSE, zeroNorm |-> FALSE]

Init ==
    /\ environ \in Environs
    \* lines 12-18: both imports succeed, or both globals are None
    /\ \E ok \in BOOLEAN :
         /\ open_clip = IF ok THEN <<"open_clip">> ELSE None
         /\ torch = IF ok THEN <<"torch">> ELSE None
    /\ cuda \in BOOLEAN
    /\ (torch = None => cuda = FALSE)
    /\ MODEL_NAME = Getenv(environ, "MODEL_NAME", "ViT-B-32")
    /\ PRETRAINED = Getenv(environ, "PRETRAINED", "laion2b_s34b_b79k")
    /\ DEVICE = Getenv(environ, "DEVICE", DefaultDevice(torch, cuda))
    /\ MODEL = None
    /\ PREPROCESS = None
    /\ started = FALSE
    /\ startupLog = ""
    /\ req = [r \in Reqs |-> IdleReq]
    /\ resp = [r \in Reqs |-> NoResp]
    /\ lastGet = NoResp
    /\ ensureCalls = 0
    /\ createCalls = 0
    /\ okLoads = 0

\* ------------------------------------------------------------ on_startup
on_startup ==
    /\ ~started
    /\ \E co \in Outcomes, eo \in Outcomes :
         LET res == load_model(open_clip, torch, MODEL, PREPROCESS,
                               MODEL_NAME, PRETRAINED, DEVICE, createCalls, co, eo)
         IN /\ MODEL' = res.MODEL
            /\ PREPROCESS' = res.PREPROCESS
            /\ startupLog' = IF res.raised THEN "Model load failed" ELSE "loaded"
            /\ ensureCalls' = ensureCalls + 1
            /\ createCalls' = createCalls + res.created
            /\ okLoads' = okLoads + res.loaded
    /\ started' = TRUE
    /\ UNCHANGED <<cfgVars, req, resp, lastGet>>

\* ------------------------------------------------------------ ImageDecoder
\* the uploads: a decodable image, a truncated/corrupt stream, no bytes at all
Uploads == {"png", "corrupt", "empty"}
\* Image.open(io.BytesIO(data)).convert("RGB") returns (TRUE) or raises (FALSE)
\* (faulty variant: no upload is rejected)
DecodesAnything(data) == TRUE
Decodes(data) == data = "png"

\* ------------------------------------------------------------ tensors
\* A float is finite (num / sqrt(den2)), NaN or +-Inf.
Finite(x, d2) == [cls |-> "finite", num |-> x, den2 |-> d2]
NaN == [cls |-> "nan", num |-> 0, den2 |-> 0]
Inf(sign) == [cls |-> "inf", num |-> sign, den2 |-> 0]
IsFinite(f) == f.cls = "finite"

\* raw feature components the forward pass may produce
Comps == {0, 1}
\* MODEL.encode_image(x) for a batch of one: shape (1, D)
FeatureBatches == {<<row>> : row \in [1..EmbedDim -> Comps]}
\* what preprocessing and the forward pass do for one image: raise, or return
\* a feature batch
ForwardOutcomes ==
    {[raised |-> TRUE, feats |-> <<>>]}
        \cup {[raised |-> FALSE, feats |-> b] : b \in FeatureBatches}

RECURSIVE SumSq(_, _)
SumSq(row, n) == IF n = 0 THEN 0 ELSE row[n] * row[n] + SumSq(row, n - 1)
\* feats.norm(dim=-1, keepdim=True), as the square of each row's norm
NormSq(feats) == [b \in DOMAIN feats |-> SumSq(feats[b], Len(feats[b]))]

\* IEEE division of the integer x by sqrt(n2)
FDiv(x, n2) ==
    IF n2 # 0 THEN Finite(x, n2)
    ELSE IF x = 0 THEN NaN
    ELSE Inf(IF x > 0 THEN 1 ELSE -1)

\* feats / feats.norm(dim=-1, keepdim=True)
Normalize(feats) ==
    [b \in DOMAIN feats |->
        [i \in DOMAIN feats[b] |-> FDiv(feats[b][i], NormSq(feats)[b])]]

\* feats.squeeze(0).float().cpu().numpy().astype(np.float32)
Squeeze0(feats) == feats[1]
\* vec.shape[0]
\* (faulty variant: len(vec.shape))
NDim(vec) == 1
Shape0(vec) == Len(vec)

\* ------------------------------------------------------------ responses
HTTPException(code, detail) == [status |-> code, detail |-> detail]

\* JSONResponse(content): the body is rendered in the constructor by
\* json.dumps(content, allow_nan=False), which raises ValueError on a NaN or
\* infinite float.  Result: the response, or raised.
\* (faulty variant: json.dumps with its default allow_nan=True)
JSONResponseAllowNan(content) == [raised |-> FALSE, response |-> [status |-> 200, body |-> content]]
JSONResponse(content) ==
    IF \E i \in DOMAIN content.embedding : ~IsFinite(content.embedding[i])
    THEN [raised |-> TRUE, response |-> NoResp]
    ELSE [raised |-> FALSE, response |-> [status |-> 200, body |-> content]]

\* lines 74-77: what the handler raises after _load_model(), None to go on
\* (faulty variant: the exception is swallowed as in on_startup)
LoadStageSwallow(res) == None
LoadStage(res) ==
    IF res.raised THEN <<HTTPException(500, "Model not available")>> ELSE None

\* lines 93-98: the content of a successful response
EmbedContent(vec, name, pre) ==
    [embedding |-> vec, dim |-> Shape0(vec), model |-> name, pretrained |-> pre]

\* lines 85-100: fo is what preprocessing and the forward pass do for this
\* image.  Calling PREPROCESS or MODEL.encode_image on None raises.
Inference(M, P, name, pre, fo) ==
    IF P = None \/ M = None \/ fo.raised
    THEN HTTPException(500, "Embedding failed")
    ELSE LET vec == Squeeze0(Normalize(fo.feats))
             out == JSONResponse(EmbedContent(vec, name, pre))
         IN IF out.raised THEN HTTPException(500, "Embedding failed")
            ELSE out.response

\* ------------------------------------------------------------ POST /embed
\* the request reaches the handler with its upload
Arrive(r) ==
    /\ started
    /\ req[r].pc = "idle"
    /\ \E d \in Uploads : req' = [req EXCEPT ![r].pc = "called", ![r].data = d]
    /\ UNCHANGED <<cfgVars, modelVars, probeVars, started, startupLog, resp, lastGet>>

\* lines 74-77, up to the await of line 80
EmbedLoad(r) ==
    /\ req[r].pc = "called"
    /\ \E co \in Outcomes, eo \in Outcomes :
         LET res == load_model(open_clip, torch, MODEL, PREPROCESS,
                               MODEL_NAME, PRETRAINED, DEVICE, createCalls, co, eo)
         IN /\ MODEL' = res.MODEL
            /\ PREPROCESS' = res.PREPROCESS
            /\ ensureCalls' = ensureCalls + 1
            /\ createCalls' = createCalls + res.created
            /\ okLoads' = okLoads + res.loaded
            /\ req' = [req EXCEPT ![r].pc = IF LoadStage(res) = None THEN "read"
                                                  ELSE "done",
                                  ![r].sawNone = (MODEL = None),
                                  ![r].ranLoad = (res.created = 1),
                                  ![r].loadRaised = res.raised]
            /\ resp' = [resp EXCEPT ![r] = IF LoadStage(res) = None THEN @
                                           ELSE LoadStage(res)[1]]
    /\ UNCHANGED <<cfgVars, started, startupLog, lastGet>>

\* lines 80-100, after image.read() has returned
EmbedRest(r) ==
    /\ req[r].pc = "read"
    /\ IF ~Decodes(req[r].data)
       THEN /\ resp' = [resp EXCEPT ![r] = HTTPException(400, "Invalid image")]
            /\ req' = [req EXCEPT ![r].pc = "done"]
       ELSE \E fo \in ForwardOutcomes :
            /\ resp' = [resp EXCEPT ![r] =
                          Inference(MODEL, PREPROCESS, MODEL_NAME, PRETRAINED, fo)]
            /\ req' = [req EXCEPT ![r].pc = "done",
                                  ![r].ranForward = (MODEL # None /\ PREPROCESS # None
                                                     /\ ~fo.raised),
                                  ![r].zeroNorm = (MODEL # None /\ PREPROCESS # None
                                                   /\ ~fo.raised
                                                   /\ NormSq(fo.feats)[1] = 0)]
    /\ UNCHANGED <<cfgVars, modelVars, probeVars, started, startupLog, lastGet>>

\* ------------------------------------------------------------ GET handlers
HealthContent(name, pre, dev) ==
    [ok |-> TRUE, model |-> name, pretrained |-> pre, device |-> dev]

\* (faulty variant: the handler ensures the model is loaded)
health_loading ==
    /\ started
    /\ LET res == load_model(open_clip, torch, MODEL, PREPROCESS,
                             MODEL_NAME, PRETRAINED, DEVICE, createCalls, "ok", "ok")
       IN /\ MODEL' = res.MODEL
          /\ PREPROCESS' = res.PREPROCESS
          /\ ensureCalls' = ensureCalls + 1
          /\ createCalls' = createCalls + res.created
          /\ okLoads' = okLoads + res.loaded
    /\ lastGet' = [status |-> 200, route |-> "/health",
                   body |-> HealthContent(MODEL_NAME, PRETRAINED, DEVICE)]
    /\ UNCHANGED <<cfgVars, started, startupLog, req, resp>>

health ==
    /\ started
    /\ lastGet' = [status |-> 200, route |-> "/health",
                   body |-> HealthContent(MODEL_NAME, PRETRAINED, DEVICE)]
    /\ UNCHANGED <<cfgVars, modelVars, probeVars, started, startupLog, req, resp>>

\* open_clip.list_pretrained(): the architectures and their pretrained tags
ListPretrained ==
    [architectures |-> {"ViT-B-32", "RN50"}, tags |-> {"laion2b_s34b_b79k", "openai"}]

\* lo: open_clip.list_pretrained() returns or raises
models ==
    /\ started
    /\ \E lo \in Outcomes :
         lastGet' = IF open_clip = None
                    THEN [status |-> 500, route |-> "/models",
                          detail |-> "open_clip not available"]
                    ELSE IF lo = "raise"
                    THEN [status |-> 500, route |-> "/models",
                          detail |-> "Failed to list models"]
                    ELSE [status |-> 200, route |-> "/models", body |-> ListPretrained]
    /\ UNCHANGED <<cfgVars, modelVars, probeVars, started, startupLog, req, resp>>

ConfigContent(name, pre, dev) ==
    [MODEL_NAME |-> name, PRETRAINED |-> pre, DEVICE |-> dev]

config ==
    /\ started
    /\ lastGet' = [status |-> 200, route |-> "/config",
                   body |-> ConfigContent(MODEL_NAME, PRETRAINED, DEVICE)]
    /\ UNCHANGED <<cfgVars, modelVars, probeVars, started, startupLog, req, resp>>

Next ==
    \/ on_startup
    \/ \E r \in Reqs : Arrive(r)
    \/ \E r \in Reqs : EmbedLoad(r)
    \/ \E r \in Reqs : EmbedRest(r)
    \/ health
    \/ models
    \/ config

Spec == Init /\ [][Next]_vars

\* ------------------------------------------------------------ properties
Unavailable == HTTPException(500, "Model not available")
InvalidImage == HTTPException(400, "Invalid image")
EmbeddingFailed == HTTPException(500, "Embedding failed")
Done(r) == req[r].pc = "done"
\* the upload is the bytes of an image
IsImage(data) == data \notin {"corrupt", "empty"}
\* the request got past _load_model without an exception
PassedLoad(r) == req[r].pc = "read" \/ (Done(r) /\ ~req[r].loadRaised)

\* C1: once MODEL has been set by a successful load, no step of startup,
\* /embed, /health, /config or /models reassigns MODEL or PREPROCESS, and
\* create_model_and_transforms is not called again.
C1_LoadedStaysLoaded ==
    [][MODEL # None =>
         /\ MODEL' = MODEL
         /\ PREPROCESS' = PREPROCESS
         /\ createCalls' = createCalls
         /\ okLoads' = okLoads]_vars

\* the startup load succeeded and two /embed requests called _load_model after it
C1_Witness ==
    /\ startupLog = "loaded"
    /\ MODEL # None
    /\ \E r1, r2 \in Reqs : r1 # r2 /\ PassedLoad(r1) /\ PassedLoad(r2)

\* C2: under every interleaving of the startup hook and the /embed requests,
\* the assignment of MODEL/PREPROCESS by a successful load happens at most
\* once, and MODEL is set exactly when it has happened.
C2_AtMostOneLoad ==
    /\ okLoads <= 1
    /\ (MODEL # None) = (okLoads = 1)

\* two requests both found MODEL = None on entry to _load_model, and one load
\* succeeded
C2_Witness ==
    /\ okLoads = 1
    /\ \E r1, r2 \in Reqs : r1 # r2 /\ req[r1].sawNone /\ req[r2].sawNone

\* C3: every /embed request whose bytes are not a decodable image ends with
\* status 400, and neither the load procedure nor the forward pass ran for it.
C3_UndecodableIs400 ==
    \A r \in Reqs :
        (Done(r) /\ ~IsImage(req[r].data)) =>
            /\ resp[r].status = 400
            /\ ~req[r].ranLoad
            /\ ~req[r].ranForward

\* C4: every /health response is 200 with ok = true, whatever the model-load
\* state, and a /health step leaves MODEL and PREPROCESS unchanged and calls
\* neither _load_model nor create_model_and_transforms.
C4_HealthAlwaysOkNoLoad ==
    /\ [](lastGet.status # 0 /\ lastGet.route = "/health" =>
            lastGet.status = 200 /\ lastGet.body.ok = TRUE)
    /\ [][health => UNCHANGED <<MODEL, PREPROCESS, ensureCalls, createCalls, okLoads>>]_vars

\* /health answered 200 with the library absent, after an /embed got 500
C4_Witness ==
    /\ open_clip = None
    /\ MODEL = None
    /\ lastGet.status = 200 /\ lastGet.route = "/health"
    /\ \E r \in Reqs : Done(r) /\ resp[r] = Unavailable

\* C5: a failed startup load leaves MODEL = None and the service running; an
\* /embed call that finds MODEL = None makes exactly one call of _load_model
\* (at most one create_model_and_transforms, exactly one when the library is
\* present), ends with 500 "Model not available" if MODEL is still None
\* afterwards, and goes on to decode and inference if the load succeeded;
\* /health stays 200 with ok = true.
C5_LoadFailureRetriedPerRequest ==
    /\ [](startupLog = "Model load failed" => started)
    /\ [](lastGet.status # 0 /\ lastGet.route = "/health" =>
            lastGet.status = 200 /\ lastGet.body.ok = TRUE)
    /\ [][\A r \in Reqs :
            (req[r].pc = "called" /\ req'[r].pc # "called" /\ MODEL = None) =>
                /\ ensureCalls' = ensureCalls + 1
                /\ createCalls' = createCalls + (IF open_clip = None THEN 0 ELSE 1)
                /\ (MODEL' = None =>
                      req'[r].pc = "done" /\ resp'[r] = Unavailable)
                /\ (MODEL' # None =>
                      req'[r].pc = "read" /\ resp'[r] = NoResp)]_vars

\* the startup load failed, one request got 500 "Model not available", a later
\* load succeeded and a request was answered 200
C5_Witness ==
    /\ startupLog = "Model load failed"
    /\ \E r1, r2 \in Reqs :
          /\ Done(r1) /\ resp[r1] = Unavailable
          /\ Done(r2) /\ resp[r2].status = 200

\* C6: a finished /embed request has exactly one of four responses, decided
\* by the first failing stage: 500 "Model not available" iff _load_model
\* raised; else 400 iff the bytes do not decode; else 500 "Embedding failed"
\* or 200, and 200 only if the forward pass ran.
C6_OutcomeByFirstFailingStage ==
    \A r \in Reqs : Done(r) =>
        \/ resp[r] = Unavailable /\ req[r].loadRaised
        \/ resp[r] = InvalidImage /\ ~req[r].loadRaised /\ ~IsImage(req[r].data)
        \/ resp[r] = EmbeddingFailed /\ ~req[r].loadRaised /\ IsImage(req[r].data)
        \/ /\ resp[r].status = 200
           /\ ~req[r].loadRaised /\ IsImage(req[r].data) /\ req[r].ranForward
           /\ MODEL # None /\ PREPROCESS # None

\* two requests ended with different failures, one at decode and one when the
\* forward pass raised
C6_Witness ==
    \E r1, r2 \in Reqs :
        /\ Done(r1) /\ resp[r1] = InvalidImage
        /\ Done(r2) /\ resp[r2] = EmbeddingFailed /\ ~req[r2].ranForward

\* C7: a request whose feature vector has norm exactly zero ends with status
\* 500 "Embedding failed" (the one policy of the code), and no 200 response
\* carries a NaN or infinite component.
C7_ZeroNormIs500 ==
    \A r \in Reqs : Done(r) =>
        /\ (req[r].zeroNorm => resp[r] = EmbeddingFailed)
        /\ (resp[r].status = 200 =>
              \A i \in DOMAIN resp[r].body.embedding :
                  IsFinite(resp[r].body.embedding[i]))

\* the forward pass returned the zero vector for a request
C7_Witness == \E r \in Reqs : Done(r) /\ req[r].zeroNorm /\ req[r].ranForward

\* C8: MODEL_NAME, PRETRAINED and DEVICE hold the environment's values (the
\* defaults where a variable is unset), no step changes them, and /config,
\* /health and every 200 /embed response report them.
C8_ConfigStable ==
    /\ [][UNCHANGED <<MODEL_NAME, PRETRAINED, DEVICE, environ>>]_vars
    /\ [](/\ MODEL_NAME = IF environ.MODEL_NAME = Unset THEN "ViT-B-32"
                          ELSE environ.MODEL_NAME
          /\ PRETRAINED = IF environ.PRETRAINED = Unset THEN "laion2b_s34b_b79k"
                          ELSE environ.PRETRAINED
          /\ DEVICE = IF environ.DEVICE # Unset THEN environ.DEVICE
                      ELSE IF torch # None /\ cuda THEN "cuda" ELSE "cpu")
    /\ [](lastGet.status = 200 /\ lastGet.route = "/config" =>
            lastGet.body = [MODEL_NAME |-> MODEL_NAME, PRETRAINED |-> PRETRAINED,
                            DEVICE |-> DEVICE])
    /\ [](lastGet.status = 200 /\ lastGet.route = "/health" =>
            /\ lastGet.body.model = MODEL_NAME
            /\ lastGet.body.pretrained = PRETRAINED
            /\ lastGet.body.device = DEVICE)
    /\ [](\A r \in Reqs : resp[r].status = 200 =>
            /\ resp[r].body.model = MODEL_NAME
            /\ resp[r].body.pretrained = PRETRAINED)

\* /config answered after a 200 /embed, with the names set in the environment
C8_Witness ==
    /\ environ.MODEL_NAME # Unset /\ environ.PRETRAINED # Unset
    /\ lastGet.status = 200 /\ lastGet.route = "/config"
    /\ \E r \in Reqs : resp[r].status = 200

\* C9: in every 200 /embed response dim is the number of elements of
\* embedding, and it is the model's output dimensionality, the same for every
\* request.
C9_DimIsModelDim ==
    \A r \in Reqs : resp[r].status = 200 =>
        /\ resp[r].body.dim = Len(resp[r].body.embedding)
        /\ resp[r].body.dim = EmbedDim

\* two requests answered 200 with different embeddings
C9_Witness ==
    \E r1, r2 \in Reqs :
        /\ resp[r1].status = 200 /\ resp[r2].status = 200
        /\ resp[r1].body.embedding # resp[r2].body.embedding

\* C10: MODEL and PREPROCESS are both None, or both set by the same load with
\* the model in evaluation mode; a request past _load_model finds both set.
C10_ModelAndPreprocessPaired ==
    /\ \/ MODEL = None /\ PREPROCESS = None
       \/ /\ MODEL # None /\ PREPROCESS # None
          /\ MODEL[1].id = PREPROCESS[1].id
          /\ ~MODEL[1].training
    /\ \A r \in Reqs : req[r].pc = "read" => MODEL # None /\ PREPROCESS # None

\* a request waits at line 80 with the model loaded by the second or a later
\* call of create_model_and_transforms (an earlier load raised)
C10_Witness ==
    /\ MODEL # None /\ MODEL[1].id >= 2
    /\ \E r \in Reqs : req[r].pc = "read"
====
